---- MODULE Spec2Model ----
(***************************************************************************)
(* Model of src/main.py: the Monte Carlo percentile bot.                   *)
(*                                                                         *)
(* run_simulation loops over TICKERS; each iteration fetches a price       *)
(* frame, extracts the Close series, computes return statistics, draws     *)
(* N_SIMS normal returns from the process-wide numpy generator, reduces    *)
(* them to percentiles and appends one record to results_to_send.  After   *)
(* the loop the batch is handed to send_discord_embed if it is non-empty.  *)
(*                                                                         *)
(* Floating point numbers are modelled as IEEE-754 values of reduced       *)
(* width: the three special values NaN, +Inf, -Inf, and finite values that *)
(* are an integer count of 1/UNIT with a significand of FloatBits bits.    *)
(* Every arithmetic result is rounded to the nearest such value, ties to   *)
(* even, where float64 rounds to the nearest double (53 bits).             *)
(***************************************************************************)
EXTENDS Integers, Sequences, FiniteSets, TLC

(***************************************************************************)
(* Bounds of the model.                                                    *)
(***************************************************************************)
\* a finite float is an integer number of 1/UNIT, UNIT = 2^UnitBits
UnitBits == 10
\* width of the significand of a float (53 in float64)
FloatBits == 8
\* longest Close column a fetched frame carries
MaxLen == 3
\* the generator state is a residue modulo RngModulus
RngModulus == 7
\* the unseeded generator starts in one of the states 0..MaxSeed
MaxSeed == 0
\* number of simulated draws per instrument (10000 in the program)
N_SIMS == 3

(***************************************************************************)
(* Configuration (src/main.py:11-16).                                      *)
(***************************************************************************)
TICKERS == <<"NQ=F", "ES=F">>
DAYS_AHEAD == 1

UNIT == 2^UnitBits

(***************************************************************************)
(* IEEE-754 values.                                                        *)
(***************************************************************************)
Fin(n) == [k |-> "fin", v |-> n]
NaN == [k |-> "nan", v |-> 0]
Inf(s) == [k |-> "inf", v |-> s]

IsNaN(x) == x.k = "nan"
IsFinite(x) == x.k = "fin"

Sgn(n) == IF n > 0 THEN 1 ELSE IF n < 0 THEN -1 ELSE 0
Abs(n) == IF n < 0 THEN -n ELSE n

\* n / d (d > 0) rounded to the nearest integer, symmetric around zero
RDiv(n, d) == Sgn(n) * ((2 * Abs(n) + d) \div (2 * d))

\* floats below Precision / UNIT in magnitude have every 1/UNIT
Precision == 2^FloatBits

RECURSIVE UlpFrom(_, _)
\* the least q among q0, 2 * q0, 4 * q0, ... with n < q * Precision
UlpFrom(n, q0) == IF n < q0 * Precision THEN q0 ELSE UlpFrom(n, 2 * q0)

\* the unit in the last place of a float of magnitude n
Ulp(n) == UlpFrom(Abs(n), 1)

\* n >= 0 as a multiple of q, to the nearest, ties to the even multiple
HalfEven(n, q) ==
    LET d == n \div q
        r == n % q
    IN IF 2 * r < q THEN d
       ELSE IF 2 * r > q THEN d + 1
       ELSE IF d % 2 = 0 THEN d ELSE d + 1

\* n rounded to a significand of FloatBits bits
Rnd(n) ==
    IF Abs(n) < Precision THEN n
    ELSE LET q == Ulp(n) IN Sgn(n) * q * HalfEven(Abs(n), q)

\* comparisons: every comparison with NaN is false
FLt(a, b) ==
    /\ ~IsNaN(a) /\ ~IsNaN(b)
    /\ CASE a.k = "fin" /\ b.k = "fin" -> a.v < b.v
         [] a.k = "inf" /\ b.k = "inf" -> a.v < b.v
         [] a.k = "inf" -> a.v < 0
         [] OTHER -> b.v > 0
FEq(a, b) == ~IsNaN(a) /\ ~IsNaN(b) /\ a = b
FLe(a, b) == FLt(a, b) \/ FEq(a, b)
FGe(a, b) == FLe(b, a)

FNeg(a) == IF IsNaN(a) THEN NaN ELSE [k |-> a.k, v |-> -a.v]

FAdd(a, b) ==
    CASE IsNaN(a) \/ IsNaN(b) -> NaN
      [] a.k = "fin" /\ b.k = "fin" -> Fin(Rnd(a.v + b.v))
      [] a.k = "inf" /\ b.k = "inf" -> IF a.v = b.v THEN a ELSE NaN
      [] a.k = "inf" -> a
      [] OTHER -> b

FSub(a, b) == FAdd(a, FNeg(b))

\* the product of two finite values in 1/UNIT, kept inside 32-bit integers
\* when one factor is a whole number
FinMul(x, y) ==
    Rnd(IF y % UNIT = 0 THEN x * (y \div UNIT)
        ELSE IF x % UNIT = 0 THEN (x \div UNIT) * y
        ELSE RDiv(x * y, UNIT))

FMul(a, b) ==
    CASE IsNaN(a) \/ IsNaN(b) -> NaN
      [] a.k = "fin" /\ b.k = "fin" -> Fin(FinMul(a.v, b.v))
      [] OTHER -> IF Sgn(a.v) * Sgn(b.v) = 0 THEN NaN
                  ELSE Inf(Sgn(a.v) * Sgn(b.v))

FDiv(a, b) ==
    CASE IsNaN(a) \/ IsNaN(b) -> NaN
      [] a.k = "fin" /\ b.k = "fin" ->
            IF b.v = 0
            THEN (IF a.v = 0 THEN NaN ELSE Inf(Sgn(a.v)))
            ELSE Fin(Rnd(Sgn(b.v) * RDiv(a.v * UNIT, Abs(b.v))))
      [] a.k = "inf" /\ b.k = "inf" -> NaN
      [] a.k = "inf" -> Inf(IF b.v < 0 THEN -a.v ELSE a.v)
      [] OTHER -> Fin(0)

RECURSIVE ISqrtIn(_, _, _)
\* the largest r in lo..hi with r * r <= n
ISqrtIn(n, lo, hi) ==
    IF lo >= hi THEN lo
    ELSE LET mid == (lo + hi + 1) \div 2
         IN IF mid * mid <= n THEN ISqrtIn(n, mid, hi)
            ELSE ISqrtIn(n, lo, mid - 1)

ISqrt(n) == ISqrtIn(n, 0, IF n < 40000 THEN n ELSE 40000)

FSqrt(a) ==
    CASE IsNaN(a) -> NaN
      [] a.k = "inf" -> IF a.v > 0 THEN a ELSE NaN
      [] OTHER -> IF a.v < 0 THEN NaN ELSE Fin(Rnd(ISqrt(a.v * UNIT)))

One == Fin(UNIT)
Zero == Fin(0)

(***************************************************************************)
(* The Price History Provider: what yf.download hands back                 *)
(* (src/main.py:97).  "raise" is a provider exception, "empty" an empty    *)
(* frame, "badcols" a non-empty object whose Close column cannot be        *)
(* extracted, "frame" a non-empty frame whose Close column is `close`.     *)
(***************************************************************************)
\* a price between 1 and 2 with a long significand (1.75 plus two units
\* in the last place)
LongPrice == Fin(UNIT + 3 * (UNIT \div 4) + 2^(UnitBits + 2 - FloatBits))

PriceValues == {NaN, Fin(0), Fin(UNIT), LongPrice}

Closes == UNION {[1..n -> PriceValues] : n \in 1..MaxLen}

Fetches ==
    {[kind |-> k, close |-> <<>>] : k \in {"raise", "empty", "badcols"}}
    \cup {[kind |-> "frame", close |-> c] : c \in Closes}

(***************************************************************************)
(* pandas / numpy reductions used by run_simulation.                       *)
(***************************************************************************)
\* Series.dropna(): NaN entries are removed, infinities are kept
DropNa(s) == SelectSeq(s, LAMBDA x : ~IsNaN(x))

\* Series.pct_change(): s[t] / s[t-1] - 1, NaN in the first position
PctChange(s) ==
    [t \in 1..Len(s) |->
        IF t = 1 THEN NaN ELSE FSub(FDiv(s[t], s[t - 1]), One)]

RECURSIVE FSum(_)
FSum(s) == IF s = <<>> THEN Zero ELSE FAdd(FSum(Tail(s)), Head(s))

\* Series.mean() / np.mean(): NaN for an empty input
FMean(s) ==
    IF Len(s) = 0 THEN NaN ELSE FDiv(FSum(s), Fin(Len(s) * UNIT))

\* variant of StdPop with the sample estimator (ddof=1, divisor N - 1)
StdSample(s) ==
    IF Len(s) = 0 THEN NaN
    ELSE LET m == FMean(s)
             sq == [t \in 1..Len(s) |->
                        FMul(FSub(s[t], m), FSub(s[t], m))]
         IN FSqrt(FDiv(FSum(sq), Fin((Len(s) - 1) * UNIT)))

\* Series.std(ddof=0): population standard deviation, NaN for an empty input
StdPop(s) ==
    IF Len(s) = 0 THEN NaN
    ELSE LET m == FMean(s)
             sq == [t \in 1..Len(s) |->
                        FMul(FSub(s[t], m), FSub(s[t], m))]
         IN FSqrt(FDiv(FSum(sq), Fin(Len(s) * UNIT)))

RECURSIVE Insert(_, _)
Insert(x, s) ==
    IF s = <<>> THEN <<x>>
    ELSE IF FLe(x, Head(s)) THEN <<x>> \o s
    ELSE <<Head(s)>> \o Insert(x, Tail(s))

RECURSIVE Sorted(_)
Sorted(s) == IF s = <<>> THEN <<>> ELSE Insert(Head(s), Sorted(Tail(s)))

HasNaN(s) == \E t \in 1..Len(s) : IsNaN(s[t])

\* np.percentile(a, q), default method: linear interpolation between the
\* two order statistics around the virtual index (n - 1) * q / 100;
\* NaN if the sample holds a NaN
Percentile(a, q) ==
    IF HasNaN(a) THEN NaN
    ELSE LET n == Len(a)
             srt == Sorted(a)
             pos == (n - 1) * q
             lo == (pos \div 100) + 1
             hi == IF lo < n THEN lo + 1 ELSE n
             t == Fin(Rnd(RDiv((pos % 100) * UNIT, 100)))
         IN FAdd(srt[lo], FMul(FSub(srt[hi], srt[lo]), t))

(***************************************************************************)
(* The process-wide generator behind np.random.normal (src/main.py:132).   *)
(* Its state is a residue; Gauss(s) is the standard normal variate the     *)
(* state s yields, and every variate drawn moves the state on by one.      *)
(***************************************************************************)
Gauss(s) == Fin(Rnd(RDiv((2 * s - (RngModulus - 1)) * UNIT, 4)))

\* variant of RngAfterNormal in which a NaN scale consumes no variate
RngAfterNormalSkipNaN(loc, scale, rows, cols, s) ==
    IF IsNaN(scale) THEN s ELSE (s + rows * cols) % RngModulus

\* the generator state after np.random.normal(loc, scale, size=(rows, cols))
\* called in state s: rows * cols variates are consumed whatever loc and
\* scale are
RngAfterNormal(loc, scale, rows, cols, s) == (s + rows * cols) % RngModulus

\* np.random.normal(loc, scale, size=(rows, cols)) called in state s:
\* loc + scale * variate, filled in row-major order
Normal(loc, scale, rows, cols, s) ==
    [r \in 1..rows |->
        [c \in 1..cols |->
            FAdd(loc, FMul(scale,
                 Gauss((s + (r - 1) * cols + (c - 1)) % RngModulus)))]]

\* f"{x:.2f}": the text of x with two decimals
Fmt2(x) ==
    CASE IsNaN(x) -> <<"nan">>
      [] x.k = "inf" -> IF x.v > 0 THEN <<"inf">> ELSE <<"-inf">>
      [] OTHER -> <<"fixed2", RDiv(x.v * 100, UNIT)>>

(***************************************************************************)
(* One iteration of the loop body of run_simulation (src/main.py:93-172)   *)
(* for `ticker`, given what the provider returns (f) and the generator     *)
(* state (s).  The result names the outcome, the generator state the       *)
(* iteration leaves and the value of every local the iteration assigns.    *)
(*   "fetch_error"  yf.download raised, caught at line 167                 *)
(*   "empty"        df.empty, continue at line 101                         *)
(*   "column_error" the Close extraction raised, continue at line 117      *)
(*   "error"        an exception in the computation, caught at line 167    *)
(*   "success"      the record was appended at line 154                    *)
(***************************************************************************)
Percentiles(sample) ==
    [p1 |-> Percentile(sample, 1), p5 |-> Percentile(sample, 5),
     p50 |-> Percentile(sample, 50), p95 |-> Percentile(sample, 95),
     p99 |-> Percentile(sample, 99)]

\* np.sqrt(252)
Sqrt252 == FSqrt(Fin(Rnd(252 * UNIT)))

\* the dict appended to results_to_send (src/main.py:154-165); the date is
\* the day after the run, written symbolically
Record(ticker, last, expected, vol, p) ==
    [ticker |-> ticker, date |-> "now+1d", last_price |-> last,
     expected |-> expected, volatility |-> vol,
     p1 |-> Fmt2(p.p1), p5 |-> Fmt2(p.p5), p50 |-> Fmt2(p.p50),
     p95 |-> Fmt2(p.p95), p99 |-> Fmt2(p.p99)]

Iteration(ticker, f, s) ==
    LET dat == DropNa(f.close)
        rets == DropNa(PctChange(dat))
        mean == FMean(rets)
        std == StdPop(rets)
        last == dat[Len(dat)]
        rand == Normal(mean, std, N_SIMS, DAYS_AHEAD, s)
        paths == [r \in 1..N_SIMS |->
                    [c \in 1..DAYS_AHEAD |-> FMul(last, FAdd(One, rand[r][c]))]]
        sim == [r \in 1..N_SIMS |-> paths[r][1]]
        pcts == Percentiles(sim)
        expected == FMean(sim)
        vol == FMul(FMul(std, Sqrt252), Fin(100 * UNIT))
        base == [outcome |-> "fetch_error", rng |-> s, data |-> <<>>,
                 returns |-> <<>>, mean_r |-> NaN, std_r |-> NaN,
                 last_price |-> NaN, simulated_prices |-> <<>>,
                 pct |-> Percentiles(<<NaN>>), expected_price |-> NaN,
                 record |-> Record(ticker, NaN, NaN, NaN, Percentiles(<<NaN>>))]
    IN CASE f.kind = "raise" -> base
         [] f.kind = "empty" -> [base EXCEPT !.outcome = "empty"]
         [] f.kind = "badcols" -> [base EXCEPT !.outcome = "column_error"]
         [] OTHER ->
              IF Len(dat) = 0
              THEN \* data.iloc[-1] raises IndexError at line 128
                   [base EXCEPT !.outcome = "error", !.data = dat,
                                !.returns = rets, !.mean_r = mean,
                                !.std_r = std]
              ELSE [outcome |-> "success",
                    rng |-> RngAfterNormal(mean, std, N_SIMS, DAYS_AHEAD, s),
                    data |-> dat, returns |-> rets, mean_r |-> mean,
                    std_r |-> std, last_price |-> last,
                    simulated_prices |-> sim, pct |-> pcts,
                    expected_price |-> expected,
                    record |-> Record(ticker, last, expected, vol, pcts)]

\* which locals an iteration with this outcome has assigned
AssignsStats(outcome) == outcome \in {"error", "success"}
AssignsAll(outcome) == outcome = "success"

\* variant of Appended in which an iteration that failed in the computation
\* leaves a record behind as well
AppendedOnError(results, outcome, rec) ==
    IF outcome \in {"success", "error"} THEN Append(results, rec) ELSE results

\* results_to_send after the iteration: the record is appended on success
\* and the list is left alone on every other path
Appended(results, outcome, rec) ==
    IF outcome = "success" THEN Append(results, rec) ELSE results

(***************************************************************************)
(* send_discord_embed (src/main.py:18-85).                                 *)
(***************************************************************************)
\* the values os.environ.get("DISCORD_WEBHOOK_URL") can have at line 12
WebhookValues == {"None", "", "https://discord/webhook"}

\* variant of Configured that tests `is not None` only
ConfiguredNotNone(url) == url # "None"

\* `if not DISCORD_WEBHOOK_URL` at line 20: None and "" are both falsy
Configured(url) == url \notin {"None", ""}

GREEN == 5763719
RED == 15548997

\* the colour of one panel (src/main.py:28-30): green unless
\* item['expected'] < item['last_price']
Color(item) == IF FLt(item.expected, item.last_price) THEN RED ELSE GREEN

\* the embed built for one record (src/main.py:32-71)
Embed(item) ==
    [title |-> item.ticker, description |-> item.date, color |-> Color(item),
     close |-> Fmt2(item.last_price), mean |-> Fmt2(item.expected),
     vol |-> Fmt2(item.volatility),
     support |-> <<item.p1, item.p5>>, mid |-> item.p50,
     resistance |-> <<item.p95, item.p99>>]

\* the embeds list after the loop at lines 26-72
Embeds(data_list) == [n \in 1..Len(data_list) |-> Embed(data_list[n])]

\* what requests.post / raise_for_status can do at lines 81-82
PostOutcomes == {"ok", "transport_error", "http_error"}

\* variant of Caught that handles requests.HTTPError only
CaughtHttpOnly(outcome) == outcome = "http_error"

\* `except Exception` at line 84 catches every failure of the delivery
Caught(outcome) == outcome \in {"transport_error", "http_error"}

\* variant of ShouldPublish that publishes unconditionally
ShouldPublishAlways(results) == TRUE

\* `if results_to_send` at line 175
ShouldPublish(results) == results # <<>>

(***************************************************************************)
(* State.                                                                  *)
(***************************************************************************)
VARIABLES
    pc,                \* "loop" while run_simulation runs, "done" after it
    exit,              \* "running", then "ok" (returned) or "crash" (raised)
    webhook,           \* DISCORD_WEBHOOK_URL
    rng,               \* state of the process-wide numpy generator
    next_ix,           \* position of the for loop in TICKERS
    results_to_send,   \* the batch
    attempted,         \* history: <<ticker, outcome>> of every iteration
    data, returns, mean_r, std_r, last_price,
    simulated_prices, pct, expected_price,   \* locals of the loop body
    handed,            \* history: the batches send_discord_embed was called with
    payloads,          \* history: the payloads built at line 74
    posts,             \* history: the outcome of every requests.post call
    warned,            \* the "no data" warning of line 178 was printed
    \* two runs of the loop side by side, A and B
    pair_ix,           \* position of both loops in TICKERS
    rngA, rngB,        \* generator state of each run
    resultsA, resultsB,   \* results_to_send of each run
    outcomeA, outcomeB,   \* outcome of the last iteration of each run
    same_series,       \* the last iteration fetched the same data in both runs
    same_before        \* before it, as many iterations had sampled in A as in B

locals == <<data, returns, mean_r, std_r, last_price,
            simulated_prices, pct, expected_price>>
run == <<pc, exit, webhook, rng, next_ix, results_to_send, attempted,
         locals, handed, payloads, posts, warned>>
pair == <<pair_ix, rngA, rngB, resultsA, resultsB, outcomeA, outcomeB,
          same_series, same_before>>
vars == <<run, pair>>

\* the state when run_simulation is entered with the webhook value w and
\* the generator in state s
RunInit(w, s) ==
    /\ pc = "loop"
    /\ exit = "running"
    /\ webhook = w
    /\ rng = s
    /\ next_ix = 1
    /\ results_to_send = <<>>
    /\ attempted = <<>>
    /\ data = <<>>
    /\ returns = <<>>
    /\ mean_r = NaN
    /\ std_r = NaN
    /\ last_price = NaN
    /\ simulated_prices = <<>>
    /\ pct = Percentiles(<<NaN>>)
    /\ expected_price = NaN
    /\ handed = <<>>
    /\ payloads = <<>>
    /\ posts = <<>>
    /\ warned = FALSE

\* two runs of the loop started from the same seed (see PairSpec below)
PairInitAt(s) ==
    /\ pair_ix = 1
    /\ rngA = s
    /\ rngB = s
    /\ resultsA = <<>>
    /\ resultsB = <<>>
    /\ outcomeA = "none"
    /\ outcomeB = "none"
    /\ same_series = FALSE
    /\ same_before = FALSE

Init ==
    /\ \E w \in WebhookValues, s \in 0..MaxSeed : RunInit(w, s)
    /\ PairInitAt(0)

\* one pass of the loop body (src/main.py:92-172)
ProcessTicker ==
    /\ pc = "loop"
    /\ next_ix <= Len(TICKERS)
    /\ \E f \in Fetches :
         \E it \in {Iteration(TICKERS[next_ix], f, rng)} :
            /\ attempted' = Append(attempted, <<TICKERS[next_ix], it.outcome>>)
            /\ results_to_send' =
                    Appended(results_to_send, it.outcome, it.record)
            /\ rng' = it.rng
            /\ IF AssignsStats(it.outcome)
               THEN /\ data' = it.data
                    /\ returns' = it.returns
                    /\ mean_r' = it.mean_r
                    /\ std_r' = it.std_r
               ELSE UNCHANGED <<data, returns, mean_r, std_r>>
            /\ IF AssignsAll(it.outcome)
               THEN /\ last_price' = it.last_price
                    /\ simulated_prices' = it.simulated_prices
                    /\ pct' = it.pct
                    /\ expected_price' = it.expected_price
               ELSE UNCHANGED <<last_price, simulated_prices, pct,
                                expected_price>>
    /\ next_ix' = next_ix + 1
    /\ UNCHANGED <<pc, exit, webhook, handed, payloads, posts, warned, pair>>

\* lines 175-176 with send_discord_embed returning at line 22
PublishUnconfigured ==
    /\ pc = "loop"
    /\ next_ix > Len(TICKERS)
    /\ ShouldPublish(results_to_send)
    /\ ~Configured(webhook)
    /\ handed' = Append(handed, results_to_send)
    /\ pc' = "done"
    /\ exit' = "ok"
    /\ UNCHANGED <<webhook, rng, next_ix, results_to_send, attempted, locals,
                   payloads, posts, warned, pair>>

\* lines 175-176 with send_discord_embed building and posting the payload
PublishDeliver ==
    /\ pc = "loop"
    /\ next_ix > Len(TICKERS)
    /\ ShouldPublish(results_to_send)
    /\ Configured(webhook)
    /\ handed' = Append(handed, results_to_send)
    /\ payloads' = Append(payloads, Embeds(results_to_send))
    /\ \E outcome \in PostOutcomes :
         /\ posts' = Append(posts, outcome)
         /\ exit' = IF outcome = "ok" \/ Caught(outcome) THEN "ok" ELSE "crash"
    /\ pc' = "done"
    /\ UNCHANGED <<webhook, rng, next_ix, results_to_send, attempted, locals,
                   warned, pair>>

\* lines 177-178: nothing to send
SkipPublish ==
    /\ pc = "loop"
    /\ next_ix > Len(TICKERS)
    /\ ~ShouldPublish(results_to_send)
    /\ warned' = TRUE
    /\ pc' = "done"
    /\ exit' = "ok"
    /\ UNCHANGED <<webhook, rng, next_ix, results_to_send, attempted, locals,
                   handed, payloads, posts, pair>>

Next ==
    \/ ProcessTicker
    \/ PublishUnconfigured
    \/ PublishDeliver
    \/ SkipPublish

Spec == Init /\ [][Next]_vars

(***************************************************************************)
(* Two runs of the loop of run_simulation side by side, started with the   *)
(* generator in the same state.  In every iteration each run gets its own  *)
(* provider result; the runs are compared on provider failures and on      *)
(* frames of at most three positive prices.                                *)
(***************************************************************************)
PairFetches ==
    {f \in Fetches :
        \/ f.kind = "raise"
        \/ /\ f.kind = "frame"
           /\ Len(f.close) <= 3
           /\ \A t \in 1..Len(f.close) : FLt(Zero, f.close[t])}

PairInit ==
    /\ RunInit("None", 0)
    /\ \E s \in 0..MaxSeed : PairInitAt(s)

\* the loop body (src/main.py:92-172) runs once in each of the two runs
PairIterate ==
    /\ pair_ix <= Len(TICKERS)
    /\ \E fA \in PairFetches, fB \in PairFetches :
         \E itA \in {Iteration(TICKERS[pair_ix], fA, rngA)},
            itB \in {Iteration(TICKERS[pair_ix], fB, rngB)} :
            /\ resultsA' = Appended(resultsA, itA.outcome, itA.record)
            /\ resultsB' = Appended(resultsB, itB.outcome, itB.record)
            /\ rngA' = itA.rng
            /\ rngB' = itB.rng
            /\ outcomeA' = itA.outcome
            /\ outcomeB' = itB.outcome
            /\ same_series' = (fA = fB)
    /\ same_before' = (Len(resultsA) = Len(resultsB))
    /\ pair_ix' = pair_ix + 1
    /\ UNCHANGED run

PairNext == PairIterate

PairSpec == PairInit /\ [][PairNext]_vars

(***************************************************************************)
(* Properties.                                                             *)
(***************************************************************************)
IsPrefix(a, b) == Len(a) <= Len(b) /\ a = SubSeq(b, 1, Len(a))
Last(q) == q[Len(q)]
LastOutcome == IF attempted = <<>> THEN "none" ELSE Last(attempted)[2]
Succeeded == SelectSeq(attempted, LAMBDA a : a[2] = "success")
Positive(x) == IsFinite(x) /\ FLt(Zero, x)

\* the history and the batch agree: every ticker up to the loop position
\* was attempted once, in order, and the batch holds the successes
C1_Batch ==
    /\ Len(attempted) = next_ix - 1
    /\ \A n \in 1..Len(attempted) : attempted[n][1] = TICKERS[n]
    /\ pc = "done" => Len(attempted) = Len(TICKERS)
    /\ Len(results_to_send) = Len(Succeeded)
    /\ \A n \in 1..Len(results_to_send) :
            results_to_send[n].ticker = Succeeded[n][1]
\* C1: whatever each instrument's outcome is, the loop attempts every
\* instrument once and in configured order, the batch holds exactly the
\* records of the instruments that succeeded, in that order, and an
\* iteration never changes or removes what is already in the batch.
C1_FailureIsolated ==
    []C1_Batch /\ [][IsPrefix(results_to_send, results_to_send')]_vars
\* the first instrument failed in the computation and the second succeeded
C1_Witness ==
    /\ pc = "done"
    /\ attempted = <<<<TICKERS[1], "error">>, <<TICKERS[2], "success">>>>
    /\ Len(results_to_send) = 1

\* C2: send_discord_embed is called only once the loop is over, once and
\* with the whole batch if the batch is non-empty, never if it is empty,
\* and the run returns normally in both cases.
C2_PublishOnceAfterLoop ==
    /\ Len(handed) <= 1
    /\ handed # <<>> =>
            /\ Len(attempted) = Len(TICKERS)
            /\ handed[1] = results_to_send
            /\ results_to_send # <<>>
    /\ pc = "done" =>
            /\ exit = "ok"
            /\ results_to_send # <<>> => Len(handed) = 1
            /\ results_to_send = <<>> => handed = <<>> /\ warned
\* every instrument failed: the run is over and nothing was published
C2_Witness ==
    /\ pc = "done"
    /\ Len(attempted) = Len(TICKERS)
    /\ results_to_send = <<>>
    /\ handed = <<>>
    /\ exit = "ok"

\* C3: a Close series with fewer than 2 observations after NaN removal
\* yields no record.
C3_ShortSeriesRejected == LastOutcome = "success" => Len(data) >= 2

\* C4: every record of the batch has a finite last price > 0 and comes from
\* a series of finite prices > 0.
C4_InvalidPriceRejected ==
    /\ \A n \in 1..Len(results_to_send) :
            Positive(results_to_send[n].last_price)
    /\ LastOutcome = "success" =>
            \A t \in 1..Len(data) : Positive(data[t])

\* C5: the five percentiles of the simulated sample are ordered
\* p1 <= p5 <= p50 <= p95 <= p99 and lie between the sample minimum and
\* the sample maximum.
C5_PercentilesOrdered ==
    LastOutcome = "success" =>
        /\ FLe(pct.p1, pct.p5) /\ FLe(pct.p5, pct.p50)
        /\ FLe(pct.p50, pct.p95) /\ FLe(pct.p95, pct.p99)
        /\ \A q \in {pct.p1, pct.p5, pct.p50, pct.p95, pct.p99} :
              /\ \E t \in 1..Len(simulated_prices) :
                    FLe(simulated_prices[t], q)
              /\ \E t \in 1..Len(simulated_prices) :
                    FLe(q, simulated_prices[t])

\* C5 on the samples that hold no NaN: the percentiles are ordered and lie
\* between the sample minimum and maximum.
C5_OrderedWithoutNaN ==
    (LastOutcome = "success" /\ ~HasNaN(simulated_prices)) =>
        C5_PercentilesOrdered

EqualRatios(s) ==
    /\ Len(s) >= 2
    /\ \A t \in 1..Len(s) : Positive(s[t])
    /\ \A t \in 2..(Len(s) - 1) : s[t + 1].v * s[t - 1].v = s[t].v * s[t].v
ConstantSeries(s) == EqualRatios(s) /\ \A t \in 1..Len(s) : s[t] = s[1]
\* every simulated price and every percentile is x
PointMass(x) ==
    /\ \A t \in 1..Len(simulated_prices) : simulated_prices[t] = x
    /\ pct = [p1 |-> x, p5 |-> x, p50 |-> x, p95 |-> x, p99 |-> x]
    /\ Last(results_to_send).p50 = Fmt2(x)
\* the expected price is x up to n units in the last place of x
ExpectedWithin(x, n) ==
    /\ expected_price = Last(results_to_send).expected
    /\ IsFinite(expected_price)
    /\ Abs(expected_price.v - x.v) <= n * Ulp(x.v)

\* C6 as claimed: for a series of two or more positive prices whose
\* consecutive ratios are all equal, stdDev = 0 and every simulated price,
\* every percentile and the expected price equal lastPrice * (1 + mean); if
\* the prices are all identical, mean = 0 and all of them equal lastPrice.
C6_DegenerateSeriesExact ==
    LastOutcome = "success" =>
        /\ EqualRatios(data) =>
                /\ std_r = Zero
                /\ PointMass(FMul(last_price, FAdd(One, mean_r)))
                /\ expected_price = FMul(last_price, FAdd(One, mean_r))
        /\ ConstantSeries(data) =>
                /\ mean_r = Zero
                /\ std_r = Zero
                /\ PointMass(last_price)
                /\ expected_price = last_price

\* C6 as amended: a constant series of two or more positive prices has
\* mean = 0 and stdDev = 0, and a series of two positive prices has
\* stdDev = 0; whenever stdDev = 0 for a series of positive prices, every
\* simulated price and every percentile equals lastPrice * (1 + mean)
\* (lastPrice for a constant series), and the expected price, the floating
\* point mean of N_SIMS equal values, equals it up to rounding: within
\* N_SIMS units in the last place.
C6_DegenerateSeriesRounded ==
    (LastOutcome = "success" /\ \A t \in 1..Len(data) : Positive(data[t])) =>
        /\ ConstantSeries(data) => mean_r = Zero /\ std_r = Zero
        /\ Len(data) = 2 => std_r = Zero
        /\ (Len(data) >= 2 /\ std_r = Zero) =>
                /\ PointMass(FMul(last_price, FAdd(One, mean_r)))
                /\ ExpectedWithin(FMul(last_price, FAdd(One, mean_r)), N_SIMS)
        /\ ConstantSeries(data) =>
                /\ PointMass(last_price)
                /\ ExpectedWithin(last_price, N_SIMS)
\* a constant series went through the simulation and the mean of the equal
\* simulated prices was rounded away from the last price
C6_Witness ==
    /\ LastOutcome = "success"
    /\ ConstantSeries(data)
    /\ Len(simulated_prices) = N_SIMS
    /\ std_r = Zero
    /\ expected_price # last_price

\* C7: the publisher makes at most one delivery attempt, the batch is not
\* queued again, and the run returns normally whether the delivery
\* succeeded, hit a transport error or got a non-success HTTP status.
C7_DeliveryFailureContained ==
    /\ Len(posts) <= 1
    /\ Len(payloads) <= 1
    /\ posts # <<>> => pc = "done" /\ exit = "ok" /\ Len(handed) = 1
    /\ exit # "crash"
\* the one delivery attempt failed and the run returned normally
C7_Witness ==
    /\ posts = <<"transport_error">>
    /\ pc = "done"
    /\ exit = "ok"

\* C9: every panel is green exactly when expectedPrice >= lastPrice and red
\* exactly when expectedPrice < lastPrice; there is one panel per record,
\* in batch order.
C9_ColourMatchesDirection ==
    \A k \in 1..Len(payloads) :
        /\ Len(payloads[k]) = Len(handed[k])
        /\ \A n \in 1..Len(payloads[k]) :
            LET item == handed[k][n]
                panel == payloads[k][n]
            IN /\ panel.title = item.ticker
               /\ panel.color \in {GREEN, RED}
               /\ panel.color = GREEN <=> FGe(item.expected, item.last_price)
               /\ panel.color = RED <=> FLt(item.expected, item.last_price)

\* C9 on the batches whose records hold no NaN price
C9_ColourWithoutNaN ==
    (\A k \in 1..Len(handed) : \A n \in 1..Len(handed[k]) :
        ~IsNaN(handed[k][n].expected) /\ ~IsNaN(handed[k][n].last_price)) =>
        C9_ColourMatchesDirection

\* C10: with DISCORD_WEBHOOK_URL unset or empty, a non-empty batch is handed
\* to send_discord_embed once, no payload is built, no request is made, and
\* the run returns normally.
C10_NoWebhookNoDelivery ==
    webhook \in {"None", ""} =>
        /\ payloads = <<>>
        /\ posts = <<>>
        /\ pc = "done" =>
                /\ exit = "ok"
                /\ results_to_send # <<>> => handed = <<results_to_send>>
\* the webhook is set to the empty string and a batch was handed over
C10_Witness ==
    /\ webhook = ""
    /\ pc = "done"
    /\ handed = <<results_to_send>>
    /\ posts = <<>>

\* C8 as claimed: with the same seed, an instrument that gets the same
\* series in two runs gets the same record, whatever happened to the
\* instruments before it.
C8_RecordIndependentOfEarlier ==
    (same_series /\ outcomeA = "success") =>
        /\ outcomeB = "success"
        /\ Last(resultsA) = Last(resultsB)

\* C8 as amended: the generator is shared by the iterations, and every
\* iteration that reaches np.random.normal moves it on by N_SIMS *
\* DAYS_AHEAD variates.  With the same seed, an instrument that gets the
\* same series in two runs gets the same record if as many earlier
\* instruments reached the sampling step in one run as in the other.
C8_RecordDependsOnDrawsBefore ==
    (same_series /\ same_before /\ outcomeA = "success") =>
        /\ outcomeB = "success"
        /\ Last(resultsA) = Last(resultsB)
\* the second instrument got the same series in both runs after the first
\* one had succeeded in both runs on different series
C8_Witness ==
    /\ pair_ix = 3
    /\ same_series
    /\ same_before
    /\ outcomeA = "success"
    /\ Len(resultsA) = 2
    /\ Len(resultsB) = 2
    /\ resultsA[1] # resultsB[1]
    /\ resultsA[2] = resultsB[2]

=============================================================================
